---- MODULE Spec2Model ----
(***************************************************************************)
(* The air-traffic dashboard of src/app.py: the cached loader load_data,   *)
(* and the main script that renders the summary metrics, the ranking view  *)
(* (top-N slider) and the partition view (threshold slider).               *)
(*                                                                         *)
(* Numbers read from the file are kept in tenths (the text "2.0" is 20,    *)
(* "15" is 150, "1.5" is 15), so that fractional text is representable.    *)
(* A value of the nullable integer type is kept in whole units.            *)
(***************************************************************************)
EXTENDS Integers, Sequences, FiniteSets, TLC

VARIABLES
    fs,          \* the file system: path -> file or Absent
    cache,       \* st.cache_data's store of load_data: path -> entry or NoEntry
    bodyRuns,    \* path -> number of times the body of load_data started
    bodyReturns, \* path -> number of times the body of load_data returned
    firstRet,    \* path -> the first value a call with that path returned
    lastCall,    \* the last direct call of load_data and what came of it
                 \* (before: a call with its path had returned before it)
    widgets,     \* the session's widget values: the two sliders
    moves,       \* the number of slider moves of the session so far
    page         \* what the last run of the main script produced

vars == <<fs, cache, bodyRuns, bodyReturns, firstRet, lastCall, widgets, moves, page>>

---------------------------------------------------------------------------
(* Paths, columns, cells *)

DATA_FILE == "22070521076_CA1_EDA.csv"

OTHER_FILE == "other.csv"

Paths == {DATA_FILE, OTHER_FILE}

CityCols == {"CITY 1", "CITY 2"}

FreightCols == {"FREIGHT TO CITY 2", "FREIGHT FROM CITY 2"}

int_cols == {"PASSENGERS TO CITY 2", "PASSENGERS FROM CITY 2", "TOTAL PASSENGERS"}

SourceCols == CityCols \cup FreightCols \cup int_cols

DerivedCols == {"TOTAL FREIGHT", "Route"}

\* A cell of the file: the text of a number (in tenths), other text, or nothing.
Number(t) == [kind |-> "number", tenths |-> t]

Text == [kind |-> "text", tenths |-> 0]

Blank == [kind |-> "blank", tenths |-> 0]

\* A value of a table: missing (NaN / <NA>) or a number.
NA == [na |-> TRUE, v |-> 0]

Val(n) == [na |-> FALSE, v |-> n]

\* A text value of a table: missing or a string.
NoStr == [na |-> TRUE, s |-> ""]

Str(s) == [na |-> FALSE, s |-> s]

RawRow(c1, c2, pto, pfrom, tp, fto, ffrom) ==
    [c1 |-> c1, c2 |-> c2, pto |-> pto, pfrom |-> pfrom, tp |-> tp,
     fto |-> fto, ffrom |-> ffrom]

Absent == [exists |-> FALSE, cols |-> {}, rows |-> <<>>]

File(cols, rows) == [exists |-> TRUE, cols |-> cols, rows |-> rows]

---------------------------------------------------------------------------
(* The files the model draws from *)

\* st.slider("Select Top N Routes to Display:", 5, min(50, len(df_clean)), 20)
TopNMin == 5

TopNCap == 50

TopNDefault == 20

\* st.slider("Set Passenger Threshold ...", 10, 500, 250, step=10) * 1000
ThresholdMin == 10

ThresholdMax == 500

ThresholdDefault == 250

ThresholdStep == 10

ThresholdScale == 1000

MaxPrefix == 2

MaxMoves == 1

MaxCalls == 2

\* Paddings that put the number of clean rows just under the slider's
\* default and at the slider's cap, so that one more row crosses each.
PadShort == TopNDefault - 1

PadLong == TopNCap

RowAB == RawRow(Str("A"), Str("B"), Number(100), Number(50), Number(150),
                Number(20), Number(10))

RowCD == RawRow(Str("C"), Str("D"), Number(1000), Number(500), Number(1500),
                Number(100), Number(50))

\* Text and blanks: a TOTAL PASSENGERS that is no number, no second city.
RowBad == RawRow(Str("E"), NoStr, Number(70), Blank, Text,
                 Number(35), Blank)

\* A TOTAL PASSENGERS of 1.5.
RowFrac == RawRow(Str("H"), Str("I"), Number(10), Number(5), Number(15),
                  Number(5), Number(5))

\* TOTAL PASSENGERS at the threshold slider's default, 250000.
RowDefault == RawRow(Str("J"), Str("K"), Number(1250000), Number(1250000),
                     Number(2500000), Blank, Blank)

\* TOTAL PASSENGERS at the threshold slider's minimum, 10000.
RowMin == RawRow(Str("L"), Str("M"), Number(60000), Number(40000),
                 Number(100000), Number(0), Number(15))

Palette == {RowAB, RowCD, RowBad, RowFrac, RowDefault, RowMin}

\* Row i of the padding: TOTAL PASSENGERS is i * 10000, all different.
PadRow(i) == RawRow(Str("P"), Str("Q"), Number(i * 60000), Number(i * 40000),
                    Number(i * 100000), Number(i * 10), Number(5))

Pad(k) == [i \in 1..k |-> PadRow(i)]

Prefixes(n) == UNION {[1..m -> Palette] : m \in 0..n}

\* Files of all columns: up to MaxPrefix arbitrary rows, or at most one
\* arbitrary row followed by a padding of distinct clean rows.
SmallFiles == {File(SourceCols, p) : p \in Prefixes(MaxPrefix)}

BigFiles ==
    {File(SourceCols, p \o Pad(PadShort)) : p \in Prefixes(1)} \cup
    {File(SourceCols, p \o Pad(PadLong)) : p \in {<<>>, <<RowAB>>, <<RowBad>>}}

\* A zero-byte file, and files whose header lacks one required column.
BrokenFiles ==
    {File({}, <<>>)} \cup
    {File(SourceCols \ {c}, <<RowAB>>) :
        c \in {"FREIGHT TO CITY 2", "CITY 2", "TOTAL PASSENGERS"}}

Files == SmallFiles \cup BigFiles \cup BrokenFiles

\* The files the direct calls of load_data are tried on.
LoaderFiles ==
    {File(SourceCols, p) : p \in {<<>>, <<RowAB>>, <<RowBad>>, <<RowFrac>>}} \cup
    {File({}, <<>>), File(SourceCols \ {"TOTAL PASSENGERS"}, <<RowAB>>)}

---------------------------------------------------------------------------
(* Tables *)

EmptyDataFrame == [cols |-> {}, dtype |-> <<>>, rows |-> <<>>]

\* df.empty: no column or no row.
IsEmpty(df) == df.cols = {} \/ Len(df.rows) = 0

Returned(df, msgs) == [exc |-> "none", df |-> df, msgs |-> msgs]

Raised(e) == [exc |-> e, df |-> EmptyDataFrame, msgs |-> 0]

\* pd.read_csv's parse of a cell of a numeric column.
ParseCell(c) == IF c.kind = "number" THEN Val(c.tenths) ELSE NA

\* The dtype pd.read_csv infers for a column from its cells.
InferDtype(cells) ==
    IF cells = {} \/ \E c \in cells : c.kind = "text" THEN "object"
    ELSE IF \E c \in cells : c.kind = "blank" \/ c.tenths % 10 # 0 THEN "float64"
    ELSE "int64"

Cells(rows, col) ==
    {CASE col = "PASSENGERS TO CITY 2" -> rows[i].pto
       [] col = "PASSENGERS FROM CITY 2" -> rows[i].pfrom
       [] col = "TOTAL PASSENGERS" -> rows[i].tp
       [] col = "FREIGHT TO CITY 2" -> rows[i].fto
       [] OTHER -> rows[i].ffrom : i \in 1..Len(rows)}

\* pd.read_csv: no file, or a zero-byte file, raises; else the rows in file
\* order under a RangeIndex, freight parsed, passenger cells as read.
read_csv(file) ==
    IF ~file.exists THEN Raised("FileNotFoundError")
    ELSE IF file.cols = {} THEN Raised("EmptyDataError")
    ELSE Returned(
        [cols |-> file.cols,
         dtype |-> [c \in file.cols |->
                      IF c \in CityCols THEN "object"
                      ELSE InferDtype(Cells(file.rows, c))],
         rows |-> [i \in 1..Len(file.rows) |->
                     [idx |-> i - 1,
                      c1 |-> file.rows[i].c1, c2 |-> file.rows[i].c2,
                      pto |-> file.rows[i].pto, pfrom |-> file.rows[i].pfrom,
                      tp |-> file.rows[i].tp,
                      fto |-> ParseCell(file.rows[i].fto),
                      ffrom |-> ParseCell(file.rows[i].ffrom)]]], 0)

AddFloatMissingAsZero(a, b) ==
    Val((IF a.na THEN 0 ELSE a.v) + (IF b.na THEN 0 ELSE b.v))

\* Float addition: missing when an operand is missing.
AddFloat(a, b) == IF a.na \/ b.na THEN NA ELSE Val(a.v + b.v)

\* String concatenation of two columns around a literal.
Concat(a, sep, b) == IF a.na \/ b.na THEN NoStr ELSE Str(a.s \o sep \o b.s)

WithDtype(df, col, dt) ==
    [c \in df.cols \cup {col} |-> IF c = col THEN dt ELSE df.dtype[c]]

\* df['TOTAL FREIGHT'] = df['FREIGHT TO CITY 2'] + df['FREIGHT FROM CITY 2']
\* (r is the outcome of the statement before: an exception ends the body)
AddTotalFreight(r) ==
    IF r.exc # "none" THEN r
    ELSE IF ~(FreightCols \subseteq r.df.cols) THEN Raised("KeyError")
    ELSE Returned(
        [cols |-> r.df.cols \cup {"TOTAL FREIGHT"},
         dtype |-> WithDtype(r.df, "TOTAL FREIGHT", "float64"),
         rows |-> [i \in 1..Len(r.df.rows) |->
                     r.df.rows[i] @@ [tf |-> AddFloat(r.df.rows[i].fto, r.df.rows[i].ffrom)]]],
        0)

\* df['Route'] = df['CITY 1'] + ' - ' + df['CITY 2']
AddRoute(r) ==
    IF r.exc # "none" THEN r
    ELSE IF ~(CityCols \subseteq r.df.cols) THEN Raised("KeyError")
    ELSE Returned(
        [cols |-> r.df.cols \cup {"Route"},
         dtype |-> WithDtype(r.df, "Route", "object"),
         rows |-> [i \in 1..Len(r.df.rows) |->
                     r.df.rows[i] @@ [route |-> Concat(r.df.rows[i].c1, " - ", r.df.rows[i].c2)]]],
        0)

\* pd.to_numeric(errors='coerce') of one cell.
to_numeric(c) == IF c.kind = "number" THEN Val(c.tenths) ELSE NA

NumericDtype(vals) ==
    IF \E x \in vals : x.na \/ x.v % 10 # 0 THEN "float64" ELSE "int64"

\* for col in int_cols: df[col] = pd.to_numeric(df[col], errors='coerce')
CoerceIntCols(r) ==
    IF r.exc # "none" THEN r
    ELSE IF ~(int_cols \subseteq r.df.cols) THEN Raised("KeyError")
    ELSE LET rows == [i \in 1..Len(r.df.rows) |->
                        [r.df.rows[i] EXCEPT !.pto = to_numeric(@),
                                             !.pfrom = to_numeric(@),
                                             !.tp = to_numeric(@)]]
             vals(c) == {CASE c = "PASSENGERS TO CITY 2" -> rows[i].pto
                           [] c = "PASSENGERS FROM CITY 2" -> rows[i].pfrom
                           [] OTHER -> rows[i].tp : i \in 1..Len(rows)}
         IN Returned([cols |-> r.df.cols,
                      dtype |-> [c \in r.df.cols |->
                                   IF c \in int_cols THEN NumericDtype(vals(c))
                                   ELSE r.df.dtype[c]],
                      rows |-> rows], 0)

\* A float has an equivalent int64.
IsWhole(x) == x.na \/ x.v % 10 = 0

ToInt64(x) == IF x.na THEN NA ELSE Val(x.v \div 10)

AsTypeInt64KeepOnError(r) ==
    IF r.exc # "none" THEN r
    ELSE IF \E i \in 1..Len(r.df.rows) :
          ~(IsWhole(r.df.rows[i].pto) /\ IsWhole(r.df.rows[i].pfrom)
            /\ IsWhole(r.df.rows[i].tp))
    THEN r
    ELSE Returned(
        [cols |-> r.df.cols,
         dtype |-> [c \in r.df.cols |-> IF c \in int_cols THEN "Int64" ELSE r.df.dtype[c]],
         rows |-> [i \in 1..Len(r.df.rows) |->
                     [r.df.rows[i] EXCEPT !.pto = ToInt64(@), !.pfrom = ToInt64(@),
                                          !.tp = ToInt64(@)]]], 0)

\* df[int_cols] = df[int_cols].astype('Int64'): a float that is no whole
\* number cannot be cast safely, and the cast raises.
AsTypeInt64(r) ==
    IF r.exc # "none" THEN r
    ELSE IF \E i \in 1..Len(r.df.rows) :
          ~(IsWhole(r.df.rows[i].pto) /\ IsWhole(r.df.rows[i].pfrom)
            /\ IsWhole(r.df.rows[i].tp))
    THEN Raised("TypeError")
    ELSE Returned(
        [cols |-> r.df.cols,
         dtype |-> [c \in r.df.cols |-> IF c \in int_cols THEN "Int64" ELSE r.df.dtype[c]],
         rows |-> [i \in 1..Len(r.df.rows) |->
                     [r.df.rows[i] EXCEPT !.pto = ToInt64(@), !.pfrom = ToInt64(@),
                                          !.tp = ToInt64(@)]]], 0)

LoadDataBodyNoExistenceCheck(file) ==
    AsTypeInt64(CoerceIntCols(AddRoute(AddTotalFreight(read_csv(file)))))

\* The body of load_data on the file now at its path: one st.error and an
\* empty table when there is no file, else the prepared table or the
\* exception of the statement that raised.
load_data_body(file) ==
    IF ~file.exists THEN Returned(EmptyDataFrame, 1)
    ELSE AsTypeInt64(CoerceIntCols(AddRoute(AddTotalFreight(read_csv(file)))))

---------------------------------------------------------------------------
(* st.cache_data *)

NoEntry == [hit |-> FALSE, df |-> EmptyDataFrame, msgs |-> 0]

Entry(r) == [hit |-> TRUE, df |-> r.df, msgs |-> r.msgs]

LoadDataUncached(store, files, p) ==
    LET r == load_data_body(files[p])
    IN [res |-> r, ran |-> TRUE, store |-> store]

\* load_data as decorated: a stored entry for the path is returned (a copy,
\* with the st.error it recorded replayed) without running the body; else
\* the body runs, and what it returns is stored. An exception is not stored.
load_data(store, files, p) ==
    IF store[p].hit
    THEN [res |-> Returned(store[p].df, store[p].msgs), ran |-> FALSE, store |-> store]
    ELSE LET r == load_data_body(files[p])
         IN [res |-> r, ran |-> TRUE,
             store |-> IF r.exc = "none" THEN [store EXCEPT ![p] = Entry(r)] ELSE store]

---------------------------------------------------------------------------
(* The main script *)

Min(a, b) == IF a < b THEN a ELSE b

Max(a, b) == IF a > b THEN a ELSE b

RECURSIVE SumSkipNA(_, _, _)
\* Series.sum(): missing values are skipped. col: "tp" or "tf".
SumSkipNA(rows, col, n) ==
    IF n = 0 THEN 0
    ELSE LET x == IF col = "tp" THEN rows[n].tp ELSE rows[n].tf
         IN SumSkipNA(rows, col, n - 1) + (IF x.na THEN 0 ELSE x.v)

NoMetrics == [shown |-> FALSE, total_passengers_sum |-> 0, total_freight_sum |-> 0,
              total_routes |-> 0]

\* total_passengers_sum, total_freight_sum, total_routes
Metrics(df) ==
    [shown |-> TRUE,
     total_passengers_sum |-> SumSkipNA(df.rows, "tp", Len(df.rows)),
     total_freight_sum |-> SumSkipNA(df.rows, "tf", Len(df.rows)),
     total_routes |-> Len(df.rows)]

\* df.dropna(subset=['TOTAL PASSENGERS']): the rows whose TOTAL PASSENGERS
\* is not missing, in their order.
dropna(df) == SelectSeq(df.rows, LAMBDA r : ~r.tp.na)

DfAfterDropnaInPlace(df) == [df EXCEPT !.rows = dropna(df)]

\* dropna and sort_values return new frames: df is left as load_data
\* returned it.
DfAfterViews(df) == df

TopNArgsOfAllRows(df) ==
    [min_value |-> TopNMin, max_value |-> Min(TopNCap, Len(df.rows)), value |-> TopNDefault]

\* The arguments of the top-N slider.
TopNArgs(df) ==
    [min_value |-> TopNMin, max_value |-> Min(TopNCap, Len(dropna(df))), value |-> TopNDefault]

NoSlider == [built |-> FALSE, exc |-> "none", lo |-> 0, hi |-> 0]

\* st.slider on its arguments: with min_value <= value <= max_value, a
\* slider over [min_value, max_value]. Otherwise what happens is the
\* library's choice and differs between its versions: the call raises, or
\* the bounds are widened to hold the value.
SliderOutcomes(args) ==
    IF args.min_value <= args.value /\ args.value <= args.max_value
    THEN {[built |-> TRUE, exc |-> "none", lo |-> args.min_value, hi |-> args.max_value]}
    ELSE {[built |-> FALSE, exc |-> "StreamlitAPIException", lo |-> 0, hi |-> 0],
          [built |-> TRUE, exc |-> "none",
           lo |-> Min(args.value, Min(args.min_value, args.max_value)),
           hi |-> Max(args.value, args.max_value)]}

\* What a slider returns: the session's value for it, or its default.
SliderValue(stored, default) == IF stored = <<>> THEN default ELSE stored[1]

InsertAt(o, k, r) == SubSeq(o, 1, k - 1) \o <<r>> \o SubSeq(o, k, Len(o))

InsertionsAscending(o, r) ==
    LET lo == 1 + Cardinality({j \in 1..Len(o) : o[j].tp.v < r.tp.v})
        hi == 1 + Cardinality({j \in 1..Len(o) : o[j].tp.v <= r.tp.v})
    IN {InsertAt(o, k, r) : k \in lo..hi}

\* The places of r in a descending order o: after every greater value,
\* before every smaller one, anywhere among the equal ones.
Insertions(o, r) ==
    LET lo == 1 + Cardinality({j \in 1..Len(o) : o[j].tp.v > r.tp.v})
        hi == 1 + Cardinality({j \in 1..Len(o) : o[j].tp.v >= r.tp.v})
    IN {InsertAt(o, k, r) : k \in lo..hi}

RECURSIVE sort_values(_, _)
\* sort_values(by='TOTAL PASSENGERS', ascending=False) of the first n rows:
\* the default sort is not stable, so rows of equal value come in any order.
sort_values(rows, n) ==
    IF n = 0 THEN {<<>>}
    ELSE UNION {Insertions(o, rows[n]) : o \in sort_values(rows, n - 1)}

\* DataFrame.head(n): the first n rows, all of them when there are fewer.
head(rows, n) == SubSeq(rows, 1, Min(n, Len(rows)))

LabelStrict(row, threshold) ==
    IF (IF row.tp.na THEN 0 ELSE row.tp.v) > threshold THEN "red" ELSE "steelblue"

\* alt.condition(alt.datum['TOTAL PASSENGERS'] >= threshold, red, steelblue):
\* the expression is evaluated by the chart on each row of df, where a
\* missing value is null, and null compares as 0.
Label(row, threshold) ==
    IF (IF row.tp.na THEN 0 ELSE row.tp.v) >= threshold THEN "red" ELSE "steelblue"

ThresholdValues == {s \in ThresholdMin..ThresholdMax : (s - ThresholdMin) % ThresholdStep = 0}

NoPage ==
    [outcome |-> "none", loadExc |-> "none", df |-> EmptyDataFrame, errors |-> 0,
     metrics |-> NoMetrics, args |-> <<>>, slider |-> NoSlider, top_n |-> 0,
     top_routes_df |-> <<>>, threshold |-> 0, labels |-> <<>>]

\* The pages one run of the script can produce from what load_data gave it
\* and the session's widget values.
Pages(r, w) ==
    IF r.exc # "none" THEN {[NoPage EXCEPT !.outcome = "load_raised", !.loadExc = r.exc]}
    ELSE IF IsEmpty(r.df)
    THEN {[NoPage EXCEPT !.outcome = "skipped", !.df = r.df, !.errors = r.msgs]}
    ELSE LET df == r.df
             base == [NoPage EXCEPT !.df = df, !.errors = r.msgs, !.metrics = Metrics(df),
                                    !.args = <<TopNArgs(df)>>]
             df_clean == dropna(df)
             orders == sort_values(df_clean, Len(df_clean))
             df2 == DfAfterViews(df)
         IN UNION {
              IF ~sl.built
              THEN {[base EXCEPT !.outcome = "slider_raised", !.slider = sl]}
              ELSE LET top_n == SliderValue(w.top_n, TopNDefault)
                       threshold == SliderValue(w.threshold, ThresholdDefault) * ThresholdScale
                   IN {[base EXCEPT !.outcome = "rendered", !.slider = sl, !.df = df2,
                                    !.top_n = top_n,
                                    !.top_routes_df = head(o, top_n),
                                    !.threshold = threshold,
                                    !.labels = [i \in 1..Len(df2.rows) |->
                                                  Label(df2.rows[i], threshold)]]
                          : o \in orders}
              : sl \in SliderOutcomes(TopNArgs(df))}

\* One run of the script, top to bottom.
RunScript(w) ==
    LET c == load_data(cache, fs, DATA_FILE)
    IN /\ cache' = c.store
       /\ page' \in Pages(c.res, w)
       /\ UNCHANGED <<fs, bodyRuns, bodyReturns, firstRet, lastCall>>

NoWidgets == [top_n |-> <<>>, threshold |-> <<>>]

\* The first run of a session.
OpenPage ==
    /\ page.outcome = "none"
    /\ UNCHANGED <<widgets, moves>>
    /\ RunScript(widgets)

\* The user reruns the script without touching a widget.
Rerun ==
    /\ page.outcome # "none"
    /\ UNCHANGED <<widgets, moves>>
    /\ RunScript(widgets)

\* The user moves the top-N slider: the script runs again with the new value.
SetTopN(n) ==
    /\ page.outcome = "rendered"
    /\ moves < MaxMoves
    /\ moves' = moves + 1
    /\ n \in page.slider.lo..page.slider.hi
    /\ widgets' = [widgets EXCEPT !.top_n = <<n>>]
    /\ RunScript(widgets')

\* The user moves the threshold slider.
SetThreshold(s) ==
    /\ page.outcome = "rendered"
    /\ moves < MaxMoves
    /\ moves' = moves + 1
    /\ s \in ThresholdValues
    /\ widgets' = [widgets EXCEPT !.threshold = <<s>>]
    /\ RunScript(widgets')

NoCall == [path |-> "", before |-> FALSE, ran |-> FALSE, exc |-> "none", df |-> EmptyDataFrame, msgs |-> 0]

Zero == [p \in Paths |-> 0]

Init ==
    /\ fs \in [Paths -> Files \cup {Absent}]
    /\ fs[OTHER_FILE] = Absent
    /\ cache = [p \in Paths |-> NoEntry]
    /\ bodyRuns = Zero
    /\ bodyReturns = Zero
    /\ firstRet = [p \in Paths |-> <<>>]
    /\ lastCall = NoCall
    /\ widgets = NoWidgets
    /\ moves = 0
    /\ page = NoPage

Next ==
    \/ OpenPage
    \/ Rerun
    \/ \E n \in 0..TopNCap : SetTopN(n)
    \/ \E s \in ThresholdValues : SetThreshold(s)

Spec == Init /\ [][Next]_vars

---------------------------------------------------------------------------
(* Direct calls of load_data while the file system changes *)

\* One call load_data(p).
CallLoadData(p) ==
    /\ bodyRuns[p] < MaxCalls
    /\ LET c == load_data(cache, fs, p)
           returned == c.res.exc = "none"
       IN /\ cache' = c.store
          /\ bodyRuns' = [bodyRuns EXCEPT ![p] = @ + (IF c.ran THEN 1 ELSE 0)]
          /\ bodyReturns' = [bodyReturns EXCEPT ![p] = @ + (IF c.ran /\ returned THEN 1 ELSE 0)]
          /\ firstRet' = [firstRet EXCEPT ![p] = IF @ = <<>> /\ returned THEN <<c.res.df>> ELSE @]
          /\ lastCall' = [path |-> p, before |-> firstRet[p] # <<>>, ran |-> c.ran, exc |-> c.res.exc, df |-> c.res.df,
                          msgs |-> c.res.msgs]
    /\ UNCHANGED <<fs, widgets, moves, page>>

\* The file at p is created or overwritten.
WriteFile(p, f) ==
    /\ fs[p] # f
    /\ fs' = [fs EXCEPT ![p] = f]
    /\ UNCHANGED <<cache, bodyRuns, bodyReturns, firstRet, lastCall, widgets, moves, page>>

\* The file at p is deleted.
DeleteFile(p) ==
    /\ fs[p].exists
    /\ fs' = [fs EXCEPT ![p] = Absent]
    /\ UNCHANGED <<cache, bodyRuns, bodyReturns, firstRet, lastCall, widgets, moves, page>>

InitLoader ==
    /\ fs = [p \in Paths |-> Absent]
    /\ cache = [p \in Paths |-> NoEntry]
    /\ bodyRuns = Zero
    /\ bodyReturns = Zero
    /\ firstRet = [p \in Paths |-> <<>>]
    /\ lastCall = NoCall
    /\ widgets = NoWidgets
    /\ moves = 0
    /\ page = NoPage

NextLoader ==
    \/ \E p \in Paths : CallLoadData(p)
    \/ \E p \in Paths, f \in LoaderFiles : WriteFile(p, f)
    \/ \E p \in Paths : DeleteFile(p)

SpecLoader == InitLoader /\ [][NextLoader]_vars

---------------------------------------------------------------------------
(* Properties *)

CleanIdx(df) == {i \in 1..Len(df.rows) : ~df.rows[i].tp.na}

NothingRendered(pg) ==
    /\ ~pg.metrics.shown
    /\ pg.args = <<>>
    /\ ~pg.slider.built
    /\ pg.top_routes_df = <<>>
    /\ pg.labels = <<>>

\* C1: when no file exists at the path, load_data returns an empty table,
\* shows exactly one error and raises nothing, and the script renders no
\* metric, no slider and no chart.
C1_MissingFileEmptyAndSkipped ==
    (~fs[DATA_FILE].exists /\ page.outcome # "none") =>
        /\ page.loadExc = "none"
        /\ page.outcome = "skipped"
        /\ page.df.cols = {} /\ page.df.rows = <<>>
        /\ page.errors = 1
        /\ NothingRendered(page)

C1_Witness ==
    /\ ~fs[DATA_FILE].exists
    /\ page.outcome = "skipped"
    /\ page.errors = 1

\* C2 as claimed: the body of load_data runs at most once per path, and
\* every later call with the path returns the table of the first call.
C2_BodyRunsAtMostOnce ==
    /\ \A p \in Paths : bodyRuns[p] <= 1
    /\ (lastCall.path # "" /\ lastCall.before) =>
            /\ lastCall.exc = "none"
            /\ lastCall.df = firstRet[lastCall.path][1]

\* C2 as amended: the body of load_data returns at most once per path; once
\* a call with a path has returned, every later call with that path returns
\* an equal table (and shows the same number of errors) without running the
\* body, whatever became of the file; a call whose body raises stores
\* nothing, so only such calls can make the body run again.
C2_BodyReturnsAtMostOnce ==
    /\ \A p \in Paths :
          /\ bodyReturns[p] <= 1
          /\ (bodyReturns[p] = 1) = (firstRet[p] # <<>>)
    /\ (lastCall.path # "" /\ lastCall.before) =>
            /\ ~lastCall.ran
            /\ lastCall.exc = "none"
            /\ lastCall.df = firstRet[lastCall.path][1]
    /\ (lastCall.path # "" /\ ~lastCall.before) =>
            /\ lastCall.ran
            /\ lastCall.exc = "none" => firstRet[lastCall.path] = <<lastCall.df>>

\* A later call returns the empty table of the first call although a file
\* with rows is now at the path, while the other path's body ran twice.
C2_Witness ==
    \E p \in Paths, q \in Paths :
        /\ p # q
        /\ lastCall.path = p /\ lastCall.before /\ ~lastCall.ran
        /\ lastCall.df = EmptyDataFrame
        /\ fs[p].exists /\ Len(fs[p].rows) > 0 /\ fs[p].cols = SourceCols
        /\ bodyRuns[q] = 2 /\ bodyReturns[q] = 0

FullyPrepared(df, file) ==
    /\ file.cols \cup DerivedCols \subseteq df.cols
    /\ DOMAIN df.dtype = df.cols
    /\ \A c \in int_cols : df.dtype[c] = "Int64"
    /\ Len(df.rows) = Len(file.rows)
    /\ \A i \in 1..Len(df.rows) :
          /\ {"tf", "route"} \subseteq DOMAIN df.rows[i]
          /\ \A x \in {df.rows[i].pto, df.rows[i].pfrom, df.rows[i].tp} :
                DOMAIN x = {"na", "v"}

EmptyOrPrepared(df, file) ==
    \/ df.cols = {} /\ df.rows = <<>>
    \/ FullyPrepared(df, file)

\* C3: whatever load_data returns is an empty table or a table with all
\* original columns, both derived columns and the three passenger columns
\* converted; nothing in between is returned, for any file.
C3_NoPartialTable ==
    /\ cache[DATA_FILE].hit => EmptyOrPrepared(cache[DATA_FILE].df, fs[DATA_FILE])
    /\ page.loadExc = "none" /\ page.outcome # "none" =>
          EmptyOrPrepared(page.df, fs[DATA_FILE])
    /\ page.loadExc # "none" => ~cache[DATA_FILE].hit /\ page.df = EmptyDataFrame

C3_Witness ==
    /\ cache[DATA_FILE].hit
    /\ page.outcome # "none"
    /\ \E i \in 1..Len(page.df.rows) : page.df.rows[i].tp.na
    /\ \E i \in 1..Len(page.df.rows) : ~page.df.rows[i].tp.na

\* C4: the ranking view holds the N rows of greatest TOTAL PASSENGERS among
\* the rows where it is not missing, in descending order; all those rows,
\* and no other, when N is at least their number.
C4_RankingView ==
    page.outcome = "rendered" =>
        LET v == page.top_routes_df
            rows == page.df.rows
            clean == CleanIdx(page.df)
        IN /\ Len(v) = Min(page.top_n, Cardinality(clean))
           /\ \A k \in 1..Len(v) : \E i \in clean : v[k] = rows[i]
           /\ \A k1 \in 1..Len(v), k2 \in 1..Len(v) :
                 k1 < k2 => v[k1] # v[k2] /\ v[k1].tp.v >= v[k2].tp.v
           /\ \A i \in clean :
                 (\A k \in 1..Len(v) : v[k] # rows[i]) =>
                     \A k \in 1..Len(v) : rows[i].tp.v <= v[k].tp.v
           /\ page.top_n >= Cardinality(clean) =>
                 {v[k] : k \in 1..Len(v)} = {rows[i] : i \in clean}

\* N cuts the clean rows, a row with missing TOTAL PASSENGERS is left out,
\* and two rows of the view tie.
C4_Witness ==
    /\ page.outcome = "rendered"
    /\ page.top_n < Cardinality(CleanIdx(page.df))
    /\ Len(page.top_routes_df) = page.top_n
    /\ widgets.top_n # <<>>
    /\ \E i \in 1..Len(page.df.rows) : page.df.rows[i].tp.na

\* C5: the threshold is the slider's value times 1000, and a row of the
\* whole table is labelled high-volume exactly when its TOTAL PASSENGERS is
\* at least the threshold; a row where it is missing is labelled low-volume.
C5_PartitionLabels ==
    page.outcome = "rendered" =>
        /\ \E s \in {10 * k : k \in 1..50} :
              /\ page.threshold = s * 1000
              /\ s = (IF widgets.threshold = <<>> THEN 250 ELSE widgets.threshold[1])
        /\ Len(page.labels) = Len(page.df.rows)
        /\ page.df = cache[DATA_FILE].df
        /\ \A i \in 1..Len(page.df.rows) :
              LET x == page.df.rows[i].tp
              IN page.labels[i] =
                    (IF ~x.na /\ x.v >= page.threshold THEN "red" ELSE "steelblue")

\* A moved slider, a row exactly at the threshold, a row above, a row
\* below, and a row with missing TOTAL PASSENGERS.
C5_Witness ==
    /\ page.outcome = "rendered"
    /\ widgets.threshold # <<>>
    /\ \E i \in 1..Len(page.df.rows) :
          /\ ~page.df.rows[i].tp.na
          /\ page.df.rows[i].tp.v = page.threshold
          /\ page.labels[i] = "red"
    /\ \E i \in 1..Len(page.df.rows) :
          ~page.df.rows[i].tp.na /\ page.df.rows[i].tp.v < page.threshold
    /\ \E i \in 1..Len(page.df.rows) :
          page.df.rows[i].tp.na /\ page.labels[i] = "steelblue"

\* C6: in a table load_data returned, TOTAL FREIGHT of a row is the sum of
\* the two freight values of that row, and is missing exactly when one of
\* them is.
C6_TotalFreight ==
    cache[DATA_FILE].hit =>
        LET rows == cache[DATA_FILE].df.rows
            raw == fs[DATA_FILE].rows
        IN \A i \in 1..Len(rows) :
              LET to == raw[i].fto
                  from == raw[i].ffrom
              IN /\ rows[i].tf.na = (to.kind # "number" \/ from.kind # "number")
                 /\ rows[i].tf.na = (rows[i].fto.na \/ rows[i].ffrom.na)
                 /\ ~rows[i].tf.na =>
                       /\ rows[i].tf.v = to.tenths + from.tenths
                       /\ rows[i].tf.v = rows[i].fto.v + rows[i].ffrom.v

C6_Witness ==
    /\ cache[DATA_FILE].hit
    /\ \E i \in 1..Len(cache[DATA_FILE].df.rows) :
          LET r == cache[DATA_FILE].df.rows[i]
          IN ~r.fto.na /\ r.ffrom.na /\ r.tf.na
    /\ \E i \in 1..Len(cache[DATA_FILE].df.rows) :
          LET r == cache[DATA_FILE].df.rows[i]
          IN ~r.tf.na /\ r.tf.v = 30

\* C7: for a file with the required columns, whatever its passenger cells
\* hold, load_data completes: a cell that is no number becomes missing, a
\* cell that is a number keeps its value.
C7_LoadCompletes ==
    (fs[DATA_FILE].exists /\ SourceCols \subseteq fs[DATA_FILE].cols
     /\ page.outcome # "none") =>
        /\ page.loadExc = "none"
        /\ cache[DATA_FILE].hit
        /\ \A i \in 1..Len(fs[DATA_FILE].rows) :
              LET raw == fs[DATA_FILE].rows[i]
                  row == cache[DATA_FILE].df.rows[i]
              IN \A f \in {"pto", "pfrom", "tp"} :
                    IF raw[f].kind = "number"
                    THEN ~row[f].na /\ row[f].v * 10 = raw[f].tenths
                    ELSE row[f].na

C10_SliderWellFormed ==
    (page.outcome # "none" /\ page.loadExc = "none" /\ ~IsEmpty(page.df)) =>
        /\ page.args # <<>>
        /\ page.args[1].max_value = Min(50, Cardinality(CleanIdx(page.df)))
        /\ page.args[1].min_value <= page.args[1].value
        /\ page.args[1].value <= page.args[1].max_value
        /\ page.outcome = "rendered"

====
